---- MODULE Spec2Model ----
(***************************************************************************)
(* Borough inference by coordinates (borough_by_coordinates.py): the run   *)
(* that selects the rows of the collision table whose BOROUGH is NULL,     *)
(* joins their points against the borough polygons, de-duplicates the      *)
(* matches, stages them in a session TEMP table and MERGEs them back.      *)
(*                                                                         *)
(* Values.  A nullable SQL / pandas value is a tuple of length at most 1:  *)
(* << >> is NULL (NaN, <NA>) and <<x>> is the value x.  A text is the      *)
(* sequence of its character codes, so that str.strip(), the ordering used *)
(* by sort_values and the parse done by pd.to_numeric are computed.        *)
(***************************************************************************)
EXTENDS Integers, Sequences, FiniteSets, TLC

NULL == << >>
Some(x) == <<x>>
IsNull(o) == o = NULL
Val(o) == o[1]

\* ------------------------------------------------------------------ texts
\* Character codes Python's str.strip() removes (ASCII whitespace).
Whitespace == {9, 10, 11, 12, 13, 32}
Digits == 48..57

RECURSIVE LStrip(_)
LStrip(s) == IF s # << >> /\ Head(s) \in Whitespace THEN LStrip(Tail(s)) ELSE s

RECURSIVE RStrip(_)
RStrip(s) ==
    IF s # << >> /\ s[Len(s)] \in Whitespace THEN RStrip(SubSeq(s, 1, Len(s) - 1)) ELSE s

\* str.strip(): leading and trailing whitespace removed.
Strip(s) == LStrip(RStrip(s))

\* Python's str ordering: code point by code point, a proper prefix first.
RECURSIVE TextLess(_, _)
TextLess(a, b) ==
    IF b = << >> THEN FALSE
    ELSE IF a = << >> THEN TRUE
    ELSE IF Head(a) # Head(b) THEN Head(a) < Head(b)
    ELSE TextLess(Tail(a), Tail(b))

\* ------------------------------------------------------------------- keys
\* A COLLISION_ID as pandas reads it: an int64 when the column is a NUMBER,
\* a str when it is a VARCHAR (create_snowflake_table_from_pgsql.py maps the
\* column's type from the loaded data).
IntKey(n) == [t |-> "int", v |-> n]
StrKey(s) == [t |-> "str", v |-> s]

\* sort_values order on the key column (one dtype per column).
KeyLess(a, b) == IF a.t = "int" THEN a.v < b.v ELSE TextLess(a.v, b.v)

RECURSIVE DigitsValue(_, _)
DigitsValue(s, acc) ==
    IF s = << >> THEN acc ELSE DigitsValue(Tail(s), 10 * acc + (Head(s) - 48))

\* pd.to_numeric(..., errors="coerce").astype("Int64") on one key: an int64
\* is kept, a str is parsed, and what does not parse becomes <NA> (NULL).
ToNumeric(k) ==
    IF k.t = "int" THEN Some(k.v)
    ELSE LET s == Strip(k.v)
         IN  IF s # << >> /\ \A i \in 1..Len(s) : s[i] \in Digits
             THEN Some(DigitsValue(s, 0))
             ELSE NULL

\* ------------------------------------------------------- polygon reference
\* A point is <<longitude, latitude>>.  A geometry is the set of points in
\* its interior and the set of points on its boundary.
Pt(lon, lat) == <<lon, lat>>

\* shapely's "within": the point lies in the polygon's interior; a point on
\* the boundary is not within.
Within(p, g) == p \in g.interior

\* to_crs("EPSG:4326"): the projected layer's coordinates are the geographic
\* ones shifted by a false origin of (10, 10).
ToCrs4326(g) ==
    [interior |-> {Pt(p[1] - 10, p[2] - 10) : p \in g.interior},
     boundary |-> {Pt(p[1] - 10, p[2] - 10) : p \in g.boundary}]

Projected(g) ==
    [interior |-> {Pt(p[1] + 10, p[2] + 10) : p \in g.interior},
     boundary |-> {Pt(p[1] + 10, p[2] + 10) : p \in g.boundary}]

\* possible_borough_name_columns, in the order they are probed.
possible_borough_name_columns ==
    <<"BoroName", "borough", "BoroughName", "BORONAME", "Boro_Name">>

\* next((col for col in possible... if col in columns), None)
borough_name_column(columns) ==
    LET hits == {i \in 1..Len(possible_borough_name_columns) :
                    possible_borough_name_columns[i] \in columns}
    IN  IF hits = {} THEN NULL
        ELSE Some(possible_borough_name_columns[
                    CHOOSE i \in hits : \A j \in hits : i <= j])

\* file.crs is str(borough_polygons.crs).lower(), NULL for a layer without.
\* What gpd.read_file + the CRS normalisation + the column probe give for a
\* polygon file: "ReadError" when the file does not parse, "CrsError" when
\* to_crs is applied to a layer without CRS, "NoNameColumn" when no accepted
\* attribute exists, else "ok" with the layer's (name, geometry) features.
LoadPolygons(file) ==
    IF file.state # "ok" THEN [status |-> "ReadError", features |-> << >>]
    ELSE IF file.crs = NULL THEN [status |-> "CrsError", features |-> << >>]
    ELSE LET col == borough_name_column(file.columns)
             geo(f) == IF Val(file.crs) = "epsg:4326" THEN f.geometry
                       ELSE ToCrs4326(f.geometry)
         IN  IF col = NULL THEN [status |-> "NoNameColumn", features |-> << >>]
             ELSE [status   |-> "ok",
                   features |-> [i \in 1..Len(file.features) |->
                                   [name     |-> file.features[i].attrs[Val(col)],
                                    geometry |-> geo(file.features[i])]]]

\* ------------------------------------------------------------ spatial join
\* Point(xy) for xy in zip(LONGITUDE, LATITUDE)
PointOf(row) == Pt(Val(row.LONGITUDE), Val(row.LATITUDE))

\* The rows gpd.sjoin(how="left", predicate="within") gives for one
\* candidate: one per polygon the point is within, in polygon order, or one
\* row with a NaN name when it is within none.
RECURSIVE JoinOne(_, _, _)
JoinOne(row, features, i) ==
    IF i > Len(features) THEN << >>
    ELSE (IF Within(PointOf(row), features[i].geometry)
          THEN <<[COLLISION_ID |-> row.COLLISION_ID, name |-> features[i].name]>>
          ELSE << >>) \o JoinOne(row, features, i + 1)

RECURSIVE SJoin(_, _)
SJoin(candidates, features) ==
    IF candidates = << >> THEN << >>
    ELSE LET hit == JoinOne(Head(candidates), features, 1)
         IN  (IF hit = << >>
              THEN <<[COLLISION_ID |-> Head(candidates).COLLISION_ID, name |-> NULL]>>
              ELSE hit) \o SJoin(Tail(candidates), features)

\* dropna(subset=[name column]), rename, astype(str).str.strip()
RECURSIVE MatchedUpdates(_)
MatchedUpdates(joined) ==
    IF joined = << >> THEN << >>
    ELSE (IF IsNull(Head(joined).name) THEN << >>
          ELSE <<[COLLISION_ID     |-> Head(joined).COLLISION_ID,
                  INFERRED_BOROUGH |-> Strip(Val(Head(joined).name))]>>)
         \o MatchedUpdates(Tail(joined))

\* ---------------------------------------------------------- de-duplication
\* Mutant of duplicate_count: duplicated(keep=False), which counts every row
\* of an id that occurs more than once.
duplicate_count_keep_false(df) ==
    Cardinality({i \in 1..Len(df) :
        \E j \in 1..Len(df) : j # i /\ df[j].COLLISION_ID = df[i].COLLISION_ID})

\* matched_updates.duplicated(subset=[COLLISION_ID]).sum(): the rows whose
\* id already occurred in an earlier row.
Duplicated(df) ==
    {i \in 1..Len(df) : \E j \in 1..(i - 1) : df[j].COLLISION_ID = df[i].COLLISION_ID}

duplicate_count(df) == Cardinality(Duplicated(df))

\* drop_duplicates(subset=[COLLISION_ID], keep="first")
DropDuplicates(df) ==
    LET keep == (1..Len(df)) \ Duplicated(df)
        F[i \in 0..Len(df)] ==
            IF i = 0 THEN << >>
            ELSE IF i \in keep THEN Append(F[i - 1], df[i]) ELSE F[i - 1]
    IN  F[Len(df)]

\* Mutant of Deduplicate: the first row of each id is kept without sorting.
DeduplicateUnsorted(df) == DropDuplicates(df)

\* Mutant of RowLess: sort_values([COLLISION_ID]), the rows of one id left in
\* the order they arrived in.
RowLessIdOnly(a, b) == KeyLess(a.COLLISION_ID, b.COLLISION_ID)

\* Row order of sort_values([COLLISION_ID, "INFERRED_BOROUGH"]).
RowLess(a, b) ==
    \/ KeyLess(a.COLLISION_ID, b.COLLISION_ID)
    \/ /\ a.COLLISION_ID = b.COLLISION_ID
       /\ TextLess(a.INFERRED_BOROUGH, b.INFERRED_BOROUGH)

RECURSIVE Insert(_, _)
Insert(r, sorted) ==
    IF sorted = << >> THEN <<r>>
    ELSE IF RowLess(r, Head(sorted)) THEN <<r>> \o sorted
    ELSE <<Head(sorted)>> \o Insert(r, Tail(sorted))

RECURSIVE SortValues(_)
SortValues(df) ==
    IF df = << >> THEN << >> ELSE Insert(df[Len(df)], SortValues(SubSeq(df, 1, Len(df) - 1)))

\* sort_values(...).drop_duplicates(...).reset_index(drop=True)
Deduplicate(df) == DropDuplicates(SortValues(df))

\* ----------------------------------------------------------------- staging
\* upload_dataframe: the key column through pd.to_numeric(errors="coerce")
\* .astype("Int64"); every row of matched_updates is kept.
UploadDataframe(df) ==
    [i \in 1..Len(df) |->
        [COLLISION_ID     |-> ToNumeric(df[i].COLLISION_ID),
         INFERRED_BOROUGH |-> df[i].INFERRED_BOROUGH]]

\* ------------------------------------------------------------------- merge
\* target.COLLISION_ID = source.COLLISION_ID, the source column being a
\* NUMBER: a NULL source key equals nothing, and a VARCHAR target key is
\* compared by its numeric value (one that is no number equals nothing).
JoinEq(key, sid) == sid # NULL /\ ToNumeric(key) = sid

Matches(key, staged) == {i \in 1..Len(staged) : JoinEq(key, staged[i].COLLISION_ID)}

\* Mutant of Qualifies: WHEN MATCHED, without the BOROUGH IS NULL guard.
QualifiesUnguarded(rows, key, staged) == Matches(key, staged) # {}

\* WHEN MATCHED AND target.BOROUGH IS NULL
Qualifies(rows, key, staged) == IsNull(rows[key].BOROUGH) /\ Matches(key, staged) # {}

\* A target row that several source rows would update: the MERGE is
\* nondeterministic and the statement is rejected.
NondeterministicMerge(rows, staged) ==
    \E key \in DOMAIN rows :
        Qualifies(rows, key, staged) /\ Cardinality(Matches(key, staged)) > 1

\* Mutant of MergeRows: the update overwrites a BOROUGH that is set.
MergeRowsUnguarded(rows, staged) ==
    [key \in DOMAIN rows |->
        IF Matches(key, staged) # {}
        THEN LET i == CHOOSE j \in Matches(key, staged) : TRUE
             IN  [rows[key] EXCEPT !.BOROUGH = Some(staged[i].INFERRED_BOROUGH),
                                   !.FLAG = TRUE]
        ELSE rows[key]]

\* Mutant of MergeRows: row-by-row updates that stop after the first row.
MergeRowsPartial(rows, staged) ==
    LET qualifying == {key \in DOMAIN rows : Qualifies(rows, key, staged)}
        first == CHOOSE key \in qualifying : TRUE
    IN  [key \in DOMAIN rows |->
            IF qualifying # {} /\ key = first
            THEN LET i == CHOOSE j \in Matches(key, staged) : TRUE
                 IN  [rows[key] EXCEPT !.BOROUGH = Some(staged[i].INFERRED_BOROUGH),
                                       !.FLAG = TRUE]
            ELSE rows[key]]

\* Mutant of MergeRows: SET target.BOROUGH only, the flag left as it was.
MergeRowsNoFlag(rows, staged) ==
    [key \in DOMAIN rows |->
        IF Qualifies(rows, key, staged)
        THEN LET i == CHOOSE j \in Matches(key, staged) : TRUE
             IN  [rows[key] EXCEPT !.BOROUGH = Some(staged[i].INFERRED_BOROUGH)]
        ELSE rows[key]]

\* Mutant of MergeRows: an upsert, with WHEN NOT MATCHED THEN INSERT for the
\* staged rows that join no target row.
MergeRowsUpsert(rows, staged) ==
    LET unmatched == {i \in 1..Len(staged) :
                        /\ staged[i].COLLISION_ID # NULL
                        /\ \A key \in DOMAIN rows : ~JoinEq(key, staged[i].COLLISION_ID)}
        KeyOf(i) == IntKey(Val(staged[i].COLLISION_ID))
    IN  [key \in DOMAIN rows \cup {KeyOf(i) : i \in unmatched} |->
            IF key \notin DOMAIN rows
            THEN LET i == CHOOSE j \in unmatched : KeyOf(j) = key
                 IN  [BOROUGH |-> Some(staged[i].INFERRED_BOROUGH),
                      LATITUDE |-> NULL, LONGITUDE |-> NULL, FLAG |-> TRUE]
            ELSE IF Qualifies(rows, key, staged)
            THEN LET i == CHOOSE j \in Matches(key, staged) : TRUE
                 IN  [rows[key] EXCEPT !.BOROUGH = Some(staged[i].INFERRED_BOROUGH),
                                       !.FLAG = TRUE]
            ELSE rows[key]]

\* The rows after merge_query.
MergeRows(rows, staged) ==
    [key \in DOMAIN rows |->
        IF Qualifies(rows, key, staged)
        THEN LET i == CHOOSE j \in Matches(key, staged) : TRUE
             IN  [rows[key] EXCEPT !.BOROUGH = Some(staged[i].INFERRED_BOROUGH),
                                   !.FLAG = TRUE]
        ELSE rows[key]]

\* summary_query
Summary(rows) ==
    [total_rows              |-> Cardinality(DOMAIN rows),
     remaining_null_boroughs |-> Cardinality({k \in DOMAIN rows : IsNull(rows[k].BOROUGH)}),
     rows_flagged_true       |-> Cardinality({k \in DOMAIN rows : rows[k].FLAG})]

\* WHERE BOROUGH IS NULL AND LATITUDE IS NOT NULL AND LONGITUDE IS NOT NULL
IsCandidate(row) ==
    IsNull(row.BOROUGH) /\ ~IsNull(row.LATITUDE) /\ ~IsNull(row.LONGITUDE)

CandidateKeys(rows) == {k \in DOMAIN rows : IsCandidate(rows[k])}

\* The row of candidate_dataframe for a key.
CandidateRow(rows, k) ==
    [COLLISION_ID |-> k, BOROUGH |-> rows[k].BOROUGH,
     LATITUDE |-> rows[k].LATITUDE, LONGITUDE |-> rows[k].LONGITUDE]

\* The orders a result set of the given keys can arrive in.
Orders(S) == {o \in [1..Cardinality(S) -> S] : \A i, j \in DOMAIN o : o[i] = o[j] => i = j}

\* ------------------------------------------------------------------ inputs
\* Region names, as character codes.
TxtX == <<88>>
TxtM == <<77>>
TxtQ == <<81>>

\* Points of the plane the rows and polygons are drawn from.
PtOne  == Pt(1, 0)
PtBoth == Pt(2, 0)
PtEdge == Pt(3, 0)

\* A layer in EPSG:4326 with two accepted name attributes: "X" covers PtOne
\* and PtBoth, "M" covers PtBoth; PtEdge is on the boundary of both.
FileBoroughs ==
    [state |-> "ok", crs |-> Some("epsg:4326"),
     columns |-> {"borough", "BoroName", "geometry"},
     features |-> <<
        [attrs |-> [BoroName |-> Some(TxtX), borough |-> Some(<<49>>)],
         geometry |-> [interior |-> {PtOne, PtBoth}, boundary |-> {PtEdge}]],
        [attrs |-> [BoroName |-> Some(TxtM), borough |-> Some(<<50>>)],
         geometry |-> [interior |-> {PtBoth}, boundary |-> {PtEdge}]] >>]

\* A projected layer whose names carry whitespace: " B" covers PtOne and
\* PtBoth, "A " and "C" cover PtBoth, and a feature without name covers
\* PtEdge.
FilePadded ==
    [state |-> "ok", crs |-> Some("epsg:2263"),
     columns |-> {"borough", "geometry"},
     features |-> <<
        [attrs |-> [borough |-> Some(<<32, 66>>)],
         geometry |-> Projected([interior |-> {PtOne, PtBoth}, boundary |-> {}])],
        [attrs |-> [borough |-> Some(<<65, 32>>)],
         geometry |-> Projected([interior |-> {PtBoth}, boundary |-> {}])],
        [attrs |-> [borough |-> Some(<<67>>)],
         geometry |-> Projected([interior |-> {PtBoth}, boundary |-> {}])],
        [attrs |-> [borough |-> NULL],
         geometry |-> Projected([interior |-> {PtEdge}, boundary |-> {}])] >>]

\* Two disjoint polygons: "Manhattan" covers PtOne, "Brooklyn" covers PtBoth,
\* and PtEdge is outside both.
TxtManhattan == <<77, 97, 110, 104, 97, 116, 116, 97, 110>>
TxtBrooklyn  == <<66, 114, 111, 111, 107, 108, 121, 110>>

FileDisjoint ==
    [state |-> "ok", crs |-> Some("epsg:4326"),
     columns |-> {"BoroName", "geometry"},
     features |-> <<
        [attrs |-> [BoroName |-> Some(TxtManhattan)],
         geometry |-> [interior |-> {PtOne}, boundary |-> {}]],
        [attrs |-> [BoroName |-> Some(TxtBrooklyn)],
         geometry |-> [interior |-> {PtBoth}, boundary |-> {}]] >>]

FileNoNameColumn ==
    [state |-> "ok", crs |-> Some("epsg:4326"),
     columns |-> {"name", "geometry"},
     features |-> <<
        [attrs |-> [name |-> Some(TxtX)],
         geometry |-> [interior |-> {PtOne, PtBoth}, boundary |-> {PtEdge}]] >>]
FileNoCrs        == [FileBoroughs EXCEPT !.crs = NULL]
FileMalformed    == [FileBoroughs EXCEPT !.state = "malformed"]
FileMissing      == [FileBoroughs EXCEPT !.state = "missing"]

PolygonFiles ==
    {FileBoroughs, FilePadded, FileDisjoint,
     FileNoNameColumn, FileNoCrs, FileMalformed, FileMissing}

\* Key columns: a NUMBER column, and VARCHAR columns holding "5" with "05"
\* and "5" with "x".
KeySets ==
    { {IntKey(5), IntKey(101)},
      {StrKey(<<53>>), StrKey(<<48, 53>>)},
      {StrKey(<<53>>), StrKey(<<120>>)} }

\* The rows a table is made of: candidates inside one polygon, inside
\* several, on a boundary, a row without longitude, and rows whose BOROUGH is
\* known (flagged by an earlier run or not).  The program sets a flag only
\* together with a BOROUGH, so no row is flagged without one.
RowShapes ==
    { [BOROUGH |-> NULL, LATITUDE |-> Some(0), LONGITUDE |-> Some(1), FLAG |-> FALSE],
      [BOROUGH |-> NULL, LATITUDE |-> Some(0), LONGITUDE |-> Some(2), FLAG |-> FALSE],
      [BOROUGH |-> NULL, LATITUDE |-> Some(0), LONGITUDE |-> Some(3), FLAG |-> FALSE],
      [BOROUGH |-> NULL, LATITUDE |-> Some(0), LONGITUDE |-> NULL, FLAG |-> FALSE],
      [BOROUGH |-> Some(TxtQ), LATITUDE |-> Some(0), LONGITUDE |-> Some(1), FLAG |-> FALSE],
      [BOROUGH |-> Some(TxtQ), LATITUDE |-> Some(0), LONGITUDE |-> Some(2), FLAG |-> TRUE] }

\* The target tables a run can find: with or without the flag column (no
\* row is flagged in a table without it).
Tables ==
    {t \in [hasFlag : BOOLEAN, rows : UNION {[ks -> RowShapes] : ks \in KeySets}] :
        t.hasFlag \/ \A k \in DOMAIN t.rows : ~t.rows[k].FLAG}

\* External writes (another process filling a BOROUGH, deleting a row) a
\* behaviour may contain.
MaxExternal == 1

Runs == {1, 2}

\* ------------------------------------------------------------------- state
VARIABLES
    table,                \* the target table: [hasFlag, rows], rows keyed by COLLISION_ID
    file,                 \* the polygon file at BOROUGH_GEOJSON_PATH
    external_left,        \* external writes the behaviour may still contain
    pc,                   \* each run's position in main()
    exists,               \* each run's result of the INFORMATION_SCHEMA probe
    candidate_dataframe,  \* each run's candidate rows
    joined_dataframe,     \* each run's sjoin output
    matched_updates,      \* each run's inferred boroughs
    reported_duplicates,  \* each run's printed duplicate count (NULL: none printed)
    staging,              \* each session's TEMP_BOROUGH_UPDATES (NULL: no such table)
    summary,              \* each run's printed post-merge summary (NULL: none)
    result,               \* how each run ended ("running" until then)
    at_start,             \* history: the table when each run started
    sequel,               \* history: the run started after the other run had ended
    merge_log             \* history: each run's MERGE, the rows before and after it

vars == <<table, file, external_left, pc, exists, candidate_dataframe, joined_dataframe,
          matched_updates, reported_duplicates, staging, summary, result,
          at_start, sequel, merge_log>>

local == <<exists, candidate_dataframe, joined_dataframe, matched_updates,
           reported_duplicates, staging, summary>>

history == <<at_start, sequel, merge_log>>

Other(r) == CHOOSE q \in Runs : q # r

\* Ways a run ends that a rerun need not repeat: the connection was lost
\* before the MERGE was applied.
Transient == {"UploadFailed", "MergeFailed"}

\* The state before the runs in `starting` start; a run not in `starting`
\* never starts.
InitWith(starting) ==
    /\ table \in Tables
    /\ file \in PolygonFiles
    /\ external_left = MaxExternal
    /\ pc = [r \in Runs |-> IF r \in starting THEN "start" ELSE "off"]
    /\ exists = [r \in Runs |-> FALSE]
    /\ candidate_dataframe = [r \in Runs |-> << >>]
    /\ joined_dataframe = [r \in Runs |-> << >>]
    /\ matched_updates = [r \in Runs |-> << >>]
    /\ reported_duplicates = [r \in Runs |-> NULL]
    /\ staging = [r \in Runs |-> NULL]
    /\ summary = [r \in Runs |-> NULL]
    /\ result = [r \in Runs |-> "running"]
    /\ at_start = [r \in Runs |-> NULL]
    /\ sequel = [r \in Runs |-> FALSE]
    /\ merge_log = [r \in Runs |-> NULL]

\* The run leaves the try block (return or exception): the finally is next.
Leave(r, how) ==
    /\ pc' = [pc EXCEPT ![r] = "finally"]
    /\ result' = [result EXCEPT ![r] = how]

Goto(r, where) ==
    /\ pc' = [pc EXCEPT ![r] = where]
    /\ UNCHANGED result

\* main(): the path check and the connection (lines 42-58).  A missing file
\* raises before anything is connected.
Start(r) ==
    /\ pc[r] = "start"
    /\ at_start' = [at_start EXCEPT ![r] = Some(table)]
    /\ sequel' = [sequel EXCEPT ![r] = pc[Other(r)] = "done"
                                          /\ result[Other(r)] \notin Transient]
    /\ IF file.state = "missing"
       THEN /\ pc' = [pc EXCEPT ![r] = "done"]
            /\ result' = [result EXCEPT ![r] = "FileNotFoundError"]
       ELSE Goto(r, "probe")
    /\ UNCHANGED <<table, file, external_left, local, merge_log>>

\* exists = pd.read_sql(exists_sql) (lines 63-72)
ProbeFlagColumn(r) ==
    /\ pc[r] = "probe"
    /\ exists' = [exists EXCEPT ![r] = table.hasFlag]
    /\ Goto(r, "ensure")
    /\ UNCHANGED <<table, file, external_left, candidate_dataframe, joined_dataframe,
                   matched_updates, reported_duplicates, staging, summary, history>>

\* Mutant of AddFlagColumn: the column is added with DEFAULT TRUE.
AddFlagColumnDefaultTrue(t) ==
    [hasFlag |-> TRUE, rows |-> [k \in DOMAIN t.rows |-> [t.rows[k] EXCEPT !.FLAG = TRUE]]]

\* ALTER TABLE ... ADD COLUMN ... BOOLEAN DEFAULT FALSE
AddFlagColumn(t) ==
    [hasFlag |-> TRUE, rows |-> [k \in DOMAIN t.rows |-> [t.rows[k] EXCEPT !.FLAG = FALSE]]]

\* Mutant of EnsureFlagColumn: the column is dropped and added again whether
\* or not it exists, which resets every flag.
EnsureFlagColumnReplacing(r) ==
    /\ pc[r] = "ensure"
    /\ Goto(r, "select")
    /\ table' = [hasFlag |-> TRUE,
                 rows |-> [k \in DOMAIN table.rows |-> [table.rows[k] EXCEPT !.FLAG = FALSE]]]
    /\ UNCHANGED <<file, external_left, local, history>>

\* if exists.empty: ALTER TABLE (lines 74-80).  The ALTER is rejected when
\* the column has been added since the probe.
EnsureFlagColumn(r) ==
    /\ pc[r] = "ensure"
    /\ IF exists[r] THEN Goto(r, "select") /\ UNCHANGED table
       ELSE IF table.hasFlag THEN Leave(r, "ColumnExists") /\ UNCHANGED table
       ELSE Goto(r, "select") /\ table' = AddFlagColumn(table)
    /\ UNCHANGED <<file, external_left, local, history>>

\* Mutant of SelectCandidates: no early return on an empty selection.
SelectCandidatesNoEarlyReturn(r) ==
    /\ pc[r] = "select"
    /\ \E order \in Orders(CandidateKeys(table.rows)) :
         candidate_dataframe' = [candidate_dataframe EXCEPT ![r] =
            [i \in DOMAIN order |-> CandidateRow(table.rows, order[i])]]
    /\ Goto(r, "load")
    /\ UNCHANGED <<table, file, external_left, exists, joined_dataframe, matched_updates,
                   reported_duplicates, staging, summary, history>>

\* candidate_dataframe = pd.read_sql(select_query) (lines 84-96); the rows
\* arrive in any order, and an empty result ends the run.
SelectCandidates(r) ==
    /\ pc[r] = "select"
    /\ \E order \in Orders(CandidateKeys(table.rows)) :
         candidate_dataframe' = [candidate_dataframe EXCEPT ![r] =
            [i \in DOMAIN order |-> CandidateRow(table.rows, order[i])]]
    /\ IF CandidateKeys(table.rows) = {} THEN Leave(r, "NoCandidates") ELSE Goto(r, "load")
    /\ UNCHANGED <<table, file, external_left, exists, joined_dataframe, matched_updates,
                   reported_duplicates, staging, summary, history>>

\* gpd.read_file, to_crs, the name column (lines 98-111) and the spatial
\* join (lines 113-128).
SpatialJoin(r) ==
    /\ pc[r] = "load"
    /\ LET polygons == LoadPolygons(file)
       IN  IF polygons.status # "ok"
           THEN Leave(r, polygons.status) /\ UNCHANGED joined_dataframe
           ELSE /\ Goto(r, "resolve")
                /\ joined_dataframe' = [joined_dataframe EXCEPT ![r] =
                      SJoin(candidate_dataframe[r], polygons.features)]
    /\ UNCHANGED <<table, file, external_left, exists, candidate_dataframe, matched_updates,
                   reported_duplicates, staging, summary, history>>

\* dropna, strip, the duplicate report and the de-duplication (lines
\* 130-150); no match ends the run.
Resolve(r) ==
    /\ pc[r] = "resolve"
    /\ LET matched == MatchedUpdates(joined_dataframe[r])
       IN  /\ reported_duplicates' = [reported_duplicates EXCEPT ![r] =
                 IF duplicate_count(matched) # 0 THEN Some(duplicate_count(matched))
                 ELSE NULL]
           /\ matched_updates' = [matched_updates EXCEPT ![r] = Deduplicate(matched)]
           /\ IF matched = << >> THEN Leave(r, "NoMatches") ELSE Goto(r, "create")
    /\ UNCHANGED <<table, file, external_left, exists, candidate_dataframe, joined_dataframe,
                   staging, summary, history>>

\* CREATE OR REPLACE TEMP TABLE (line 155)
CreateTempTable(r) ==
    /\ pc[r] = "create"
    /\ staging' = [staging EXCEPT ![r] = Some(<< >>)]
    /\ Goto(r, "upload")
    /\ UNCHANGED <<table, file, external_left, exists, candidate_dataframe, joined_dataframe,
                   matched_updates, reported_duplicates, summary, history>>

\* write_pandas(upload_dataframe) (lines 157-167)
Upload(r) ==
    /\ pc[r] = "upload"
    /\ staging' = [staging EXCEPT ![r] =
          Some(Val(staging[r]) \o UploadDataframe(matched_updates[r]))]
    /\ Goto(r, "merge")
    /\ UNCHANGED <<table, file, external_left, exists, candidate_dataframe, joined_dataframe,
                   matched_updates, reported_duplicates, summary, history>>

UploadFails(r) ==
    /\ pc[r] = "upload"
    /\ Leave(r, "UploadFailed")
    /\ UNCHANGED <<table, file, external_left, local, history>>

\* cursor.execute(merge_query) (lines 171-180): one statement, applied as a
\* whole.
Merge(r) ==
    /\ pc[r] = "merge"
    /\ ~NondeterministicMerge(table.rows, Val(staging[r]))
    /\ table' = [table EXCEPT !.rows = MergeRows(table.rows, Val(staging[r]))]
    /\ merge_log' = [merge_log EXCEPT ![r] =
          Some([ok |-> TRUE, before |-> table.rows, staged |-> Val(staging[r]),
                updated |-> {k \in DOMAIN table.rows :
                                Qualifies(table.rows, k, Val(staging[r]))},
                after |-> table'.rows])]
    /\ Goto(r, "summary")
    /\ UNCHANGED <<file, external_left, local, at_start, sequel>>

\* The statement fails (nondeterministic MERGE, connection lost): nothing of
\* it is applied.
MergeFails(r) ==
    /\ pc[r] = "merge"
    /\ merge_log' = [merge_log EXCEPT ![r] =
          Some([ok |-> FALSE, before |-> table.rows, staged |-> Val(staging[r]),
                updated |-> {}, after |-> table.rows])]
    /\ Leave(r, IF NondeterministicMerge(table.rows, Val(staging[r]))
                THEN "NondeterministicMerge" ELSE "MergeFailed")
    /\ UNCHANGED <<table, file, external_left, local, at_start, sequel>>

\* summary = pd.read_sql(summary_query) (lines 183-192)
Summarize(r) ==
    /\ pc[r] = "summary"
    /\ summary' = [summary EXCEPT ![r] = Some(Summary(table.rows))]
    /\ Leave(r, "Merged")
    /\ UNCHANGED <<table, file, external_left, exists, candidate_dataframe, joined_dataframe,
                   matched_updates, reported_duplicates, staging, history>>

SummarizeFails(r) ==
    /\ pc[r] = "summary"
    /\ Leave(r, "SummaryFailed")
    /\ UNCHANGED <<table, file, external_left, local, history>>

\* finally: cursor.close(); connection.close() (lines 194-197).  The session
\* ends and its temporary table with it.
\* A staging relation that outlives the session (CREATE TABLE without TEMP).
FinallyKeepsStaging(r) ==
    /\ pc[r] = "finally"
    /\ Goto(r, "done")
    /\ UNCHANGED <<table, file, external_left, local, history>>

Finally(r) ==
    /\ pc[r] = "finally"
    /\ staging' = [staging EXCEPT ![r] = NULL]
    /\ Goto(r, "done")
    /\ UNCHANGED <<table, file, external_left, exists, candidate_dataframe, joined_dataframe,
                   matched_updates, reported_duplicates, summary, history>>

\* Another process fills the BOROUGH of a row that has none.
ExternalUpdate ==
    /\ external_left > 0
    /\ \E k \in DOMAIN table.rows :
         /\ IsNull(table.rows[k].BOROUGH)
         /\ table' = [table EXCEPT !.rows[k].BOROUGH = Some(TxtQ)]
    /\ external_left' = external_left - 1
    /\ UNCHANGED <<file, pc, result, local, history>>

\* Another process deletes a row.
ExternalDelete ==
    /\ external_left > 0
    /\ \E k \in DOMAIN table.rows :
         table' = [table EXCEPT !.rows = [j \in DOMAIN table.rows \ {k} |-> table.rows[j]]]
    /\ external_left' = external_left - 1
    /\ UNCHANGED <<file, pc, result, local, history>>

\* The steps of one run of main().
Run(r) ==
    \/ Start(r)
    \/ ProbeFlagColumn(r)
    \/ EnsureFlagColumn(r)
    \/ SelectCandidates(r)
    \/ SpatialJoin(r)
    \/ Resolve(r)
    \/ CreateTempTable(r)
    \/ Upload(r)
    \/ UploadFails(r)
    \/ Merge(r)
    \/ MergeFails(r)
    \/ Summarize(r)
    \/ SummarizeFails(r)
    \/ Finally(r)

\* One run, with other processes writing to the table.
Init == InitWith({1})
Next == (\E r \in Runs : Run(r)) \/ ExternalUpdate \/ ExternalDelete
Spec == Init /\ [][Next]_vars

\* Two runs against the same table, in sequence or interleaved, and no other
\* writer.
InitRuns == InitWith(Runs)
NextRuns == \E r \in Runs : Run(r)
SpecRuns == InitRuns /\ [][NextRuns]_vars

\* The resolver alone (lines 130-150), on every sjoin output of up to
\* MaxMatches rows: the rows of one id are adjacent, as the join emits them.
MaxMatches == 3

JoinedRows ==
    [COLLISION_ID : {IntKey(5), IntKey(101)},
     name : {NULL, Some(TxtX), Some(TxtM), Some(<<32, 66>>), Some(<<65, 32>>)}]

JoinedDataframes ==
    {df \in UNION {[1..n -> JoinedRows] : n \in 0..MaxMatches} :
        \A i, j, k \in DOMAIN df :
            (i < j /\ j < k /\ df[i].COLLISION_ID = df[k].COLLISION_ID)
                => df[j].COLLISION_ID = df[i].COLLISION_ID}

InitResolve ==
    /\ table = [hasFlag |-> TRUE, rows |-> << >>]
    /\ file = FileBoroughs
    /\ external_left = 0
    /\ pc = [r \in Runs |-> IF r = 1 THEN "resolve" ELSE "off"]
    /\ exists = [r \in Runs |-> TRUE]
    /\ candidate_dataframe = [r \in Runs |-> << >>]
    /\ \E df \in JoinedDataframes :
          joined_dataframe = [r \in Runs |-> IF r = 1 THEN df ELSE << >>]
    /\ matched_updates = [r \in Runs |-> << >>]
    /\ reported_duplicates = [r \in Runs |-> NULL]
    /\ staging = [r \in Runs |-> NULL]
    /\ summary = [r \in Runs |-> NULL]
    /\ result = [r \in Runs |-> "running"]
    /\ at_start = [r \in Runs |-> NULL]
    /\ sequel = [r \in Runs |-> FALSE]
    /\ merge_log = [r \in Runs |-> NULL]

NextResolve == \E r \in Runs : Resolve(r)
SpecResolve == InitResolve /\ [][NextResolve]_vars

\* ================================================================== claims
Logged(r) == merge_log[r] # NULL
Log(r) == Val(merge_log[r])

\* The staged rows a target key joins.
Hits(key, staged) == {i \in 1..Len(staged) : JoinEq(key, staged[i].COLLISION_ID)}

\* The keys whose BOROUGH a logged MERGE changed.
Written(m) == {k \in DOMAIN m.before : m.after[k].BOROUGH # m.before[k].BOROUGH}

\* C1 (idempotence of the full pipeline): a run that starts after another run
\* of the pipeline has ended, on the same polygon reference and with no other
\* writer, leaves the table -- the flag column, every row's BOROUGH and every
\* row's flag -- as that first run left it, at every step and when it ends.
C1_Idempotent ==
    \A r \in Runs : sequel[r] => table = Val(at_start[r])

\* C1 witness: the second run has ended after a first run whose MERGE wrote
\* a row.
C1_Witness ==
    \E r \in Runs :
        /\ sequel[r] /\ pc[r] = "done"
        /\ Logged(Other(r)) /\ Written(Log(Other(r))) # {}

\* C2 (merge guard): an applied MERGE gives a target row the staged BOROUGH
\* and a true flag exactly when a staged row has its key and its BOROUGH is
\* NULL when the MERGE executes; every other row, one filled by another
\* writer since the selection included, is left as it was.
C2_MergeGuard ==
    \A r \in Runs : (Logged(r) /\ Log(r).ok) =>
        LET m == Log(r)
        IN  \A k \in DOMAIN m.before :
                IF Hits(k, m.staged) # {} /\ IsNull(m.before[k].BOROUGH)
                THEN /\ \A i \in Hits(k, m.staged) :
                            m.after[k].BOROUGH = Some(m.staged[i].INFERRED_BOROUGH)
                     /\ m.after[k].FLAG
                ELSE m.after[k] = m.before[k]

\* C2 witness: an applied MERGE wrote one row and skipped a staged row that
\* was a candidate of the run and has since been filled by another writer.
C2_Witness ==
    \E r \in Runs :
        /\ Logged(r) /\ Log(r).ok /\ Written(Log(r)) # {}
        /\ \E i \in DOMAIN candidate_dataframe[r] :
              LET k == candidate_dataframe[r][i].COLLISION_ID
              IN  /\ k \in DOMAIN Log(r).before
                  /\ Hits(k, Log(r).staged) # {}
                  /\ Log(r).before[k].BOROUGH = Some(TxtQ)
                  /\ Log(r).after[k].BOROUGH = Some(TxtQ)

\* C3 (flag scoping): when a run has ended, the rows whose flag it turned
\* true are exactly the rows whose BOROUGH its MERGE wrote, and a row that
\* had a BOROUGH when the run started has the flag it had then.
C3_FlagScoping ==
    \A r \in Runs : (pc[r] = "done" /\ at_start[r] # NULL) =>
        LET before  == Val(at_start[r]).rows
            written == IF Logged(r) THEN Written(Log(r)) ELSE {}
        IN  \A k \in DOMAIN table.rows :
                /\ (table.rows[k].FLAG /\ ~before[k].FLAG) <=> k \in written
                /\ ~IsNull(before[k].BOROUGH) => table.rows[k].FLAG = before[k].FLAG

\* C3 witness: a run has ended whose MERGE wrote a row, beside a row that
\* had a BOROUGH and no flag at the start.
C3_Witness ==
    \E r \in Runs :
        /\ pc[r] = "done" /\ Logged(r)
        /\ \E k, j \in DOMAIN table.rows :
              /\ k \in Written(Log(r)) /\ table.rows[k].FLAG
              /\ ~IsNull(Val(at_start[r]).rows[j].BOROUGH) /\ ~table.rows[j].FLAG

\* C4 (merge atomicity): one MERGE changes every target row that qualifies
\* (a staged row has its key and its BOROUGH is NULL) or changes no row at
\* all, and a MERGE that fails changes no row.
C4_MergeAtomic ==
    \A r \in Runs : Logged(r) =>
        LET m == Log(r)
            qualifying == {k \in DOMAIN m.before :
                              Hits(k, m.staged) # {} /\ IsNull(m.before[k].BOROUGH)}
        IN  /\ \/ m.after = m.before
               \/ \A k \in qualifying : ~IsNull(m.after[k].BOROUGH) /\ m.after[k].FLAG
            /\ ~m.ok => m.after = m.before

\* C4 witness: a MERGE that two target rows qualified for has failed.
C4_Witness ==
    \E r \in Runs :
        /\ Logged(r) /\ ~Log(r).ok /\ result[r] = "MergeFailed"
        /\ Cardinality({k \in DOMAIN Log(r).before :
                Hits(k, Log(r).staged) # {} /\ IsNull(Log(r).before[k].BOROUGH)}) >= 2

\* C5 (concurrent runs): of two runs on the same table, however their steps
\* interleave, at most one run's MERGE writes a given row, and no MERGE
\* changes a BOROUGH that is already set.
C5_OneWriterPerRow ==
    /\ \A r \in Runs : Logged(r) =>
          \A k \in DOMAIN Log(r).before :
              ~IsNull(Log(r).before[k].BOROUGH) => Log(r).after[k] = Log(r).before[k]
    /\ \A r, q \in Runs : (r # q /\ Logged(r) /\ Logged(q)) =>
          Log(r).updated \cap Log(q).updated = {}

\* C5 witness: both runs staged a row for the same target row and both
\* MERGEs were applied; one of them wrote the row.
C5_Witness ==
    \E k \in DOMAIN table.rows :
        /\ \A r \in Runs : Logged(r) /\ Log(r).ok /\ Hits(k, Log(r).staged) # {}
        /\ \E r \in Runs : k \in Log(r).updated

\* The run has passed the resolver.
Resolved(r) == pc[r] \in {"create", "upload", "merge", "summary", "finally", "done"}

\* The match results of a run: the joined rows that carry a name.
MatchResults(r) == {i \in DOMAIN joined_dataframe[r] : ~IsNull(joined_dataframe[r][i].name)}
MatchedIds(r) == {joined_dataframe[r][i].COLLISION_ID : i \in MatchResults(r)}
MatchesOf(r, id) == {i \in MatchResults(r) : joined_dataframe[r][i].COLLISION_ID = id}

\* t is s without its leading and trailing whitespace.
IsTrimOf(t, s) ==
    \E i, j \in 0..Len(s) :
        /\ i + j <= Len(s)
        /\ t = SubSeq(s, i + 1, Len(s) - j)
        /\ \A x \in 1..i : s[x] \in Whitespace
        /\ \A x \in (Len(s) - j + 1)..Len(s) : s[x] \in Whitespace
        /\ t # << >> => (t[1] \notin Whitespace /\ t[Len(t)] \notin Whitespace)

\* The trimmed forms of s (one, by IsTrimOf).
TrimsOf(s) ==
    {t \in {SubSeq(s, a, b) : a \in 1..(Len(s) + 1), b \in 0..Len(s)} : IsTrimOf(t, s)}

\* C6 (overlap tie-break): for an id with more than one match result, the
\* resolver keeps one row, whose region is a candidate name of the id with
\* its leading and trailing whitespace trimmed, and no trimmed candidate
\* name of the id sorts before it.
C6_TieBreak ==
    \A r \in Runs : Resolved(r) =>
        \A id \in MatchedIds(r) : Cardinality(MatchesOf(r, id)) > 1 =>
            /\ Cardinality({i \in DOMAIN matched_updates[r] :
                               matched_updates[r][i].COLLISION_ID = id}) = 1
            /\ \A i \in DOMAIN matched_updates[r] :
                  matched_updates[r][i].COLLISION_ID = id =>
                     LET region == matched_updates[r][i].INFERRED_BOROUGH
                     IN  /\ \E m \in MatchesOf(r, id) :
                               IsTrimOf(region, Val(joined_dataframe[r][m].name))
                         /\ \A m \in MatchesOf(r, id) :
                               \A t \in TrimsOf(Val(joined_dataframe[r][m].name)) :
                                  ~TextLess(t, region)

\* C6 witness: the matches " B" then "A " of one id have been resolved to
\* "A".
C6_Witness ==
    \E r \in Runs :
        /\ Resolved(r)
        /\ joined_dataframe[r] = <<[COLLISION_ID |-> IntKey(5), name |-> Some(<<32, 66>>)],
                                   [COLLISION_ID |-> IntKey(5), name |-> Some(<<65, 32>>)]>>
        /\ matched_updates[r] = <<[COLLISION_ID |-> IntKey(5), INFERRED_BOROUGH |-> <<65>>]>>

\* The duplicate count a run printed (nothing is printed for a count of 0).
Reported(r) == IF reported_duplicates[r] = NULL THEN 0 ELSE Val(reported_duplicates[r])

\* C7 as claimed (duplicate reporting): the reported count is the number of
\* distinct ids that had more than one match result.
C7_CountsCollapsedIds ==
    \A r \in Runs : Resolved(r) =>
        Reported(r) = Cardinality({id \in MatchedIds(r) : Cardinality(MatchesOf(r, id)) > 1})

\* C7 as amended: the reported count is the number of match rows the
\* de-duplication drops, the match results less their distinct ids (one for
\* an id with two match results, two for an id with three).
C7_CountsDroppedRows ==
    \A r \in Runs : Resolved(r) =>
        /\ Reported(r) = Cardinality(MatchResults(r)) - Cardinality(MatchedIds(r))
        /\ Reported(r) = Cardinality(MatchResults(r)) - Len(matched_updates[r])

\* C7 witness: an id with three match results was resolved and a count of 2
\* reported.
C7_Witness ==
    \E r \in Runs :
        /\ Resolved(r) /\ Reported(r) = 2
        /\ \E id \in MatchedIds(r) : Cardinality(MatchesOf(r, id)) = 3

\* C8 as claimed (unique join key): when a run reaches the MERGE, no two
\* staged rows have the same key, and every id that had a match result has
\* exactly one staged row that joins it.
C8_UniqueJoinKey ==
    \A r \in Runs : pc[r] = "merge" =>
        LET staged == Val(staging[r])
        IN  /\ \A i, j \in DOMAIN staged :
                  staged[i].COLLISION_ID = staged[j].COLLISION_ID => i = j
            /\ \A id \in MatchedIds(r) : Cardinality(Hits(id, staged)) = 1

\* C9 as claimed (coercion failures): no staged row has a NULL key, and a
\* resolved row whose id does not coerce has no staged row.
C9_NoNullKeyStaged ==
    \A r \in Runs : staging[r] # NULL =>
        /\ \A i \in DOMAIN Val(staging[r]) : ~IsNull(Val(staging[r])[i].COLLISION_ID)
        /\ Len(Val(staging[r])) <=
              Cardinality({i \in DOMAIN matched_updates[r] :
                              ~IsNull(ToNumeric(matched_updates[r][i].COLLISION_ID))})

\* C10 as claimed (fatal errors precede mutation): a run that, with no other
\* writer, aborts because the polygon file does not parse or has no accepted
\* name attribute leaves the table, its flag column included, as it was when
\* the run started.
C10_FatalBeforeMutation ==
    \A r \in Runs :
        (result[r] \in {"ReadError", "NoNameColumn"} /\ external_left = MaxExternal)
            => table = Val(at_start[r])

\* C11 (staging lifetime): whichever way a run ends -- normally, on a failed
\* upload, on an exception during the merge or the summary -- its staging
\* relation no longer exists once it has ended; a run has no staging relation
\* before it creates one, the relation it creates is empty, and at the merge
\* it holds the rows this run uploaded and no others.
C11_StagingLifetime ==
    \A r \in Runs :
        /\ pc[r] \in {"off", "start", "probe", "ensure", "select", "load", "resolve",
                      "create", "done"} => staging[r] = NULL
        /\ pc[r] = "upload" => staging[r] = Some(<< >>)
        /\ pc[r] \in {"merge", "summary"} =>
               staging[r] = Some(UploadDataframe(matched_updates[r]))

\* A run has ended on an exception after staging rows, its staging relation
\* is gone, and the run that started after it has just created its own.
C11_Witness ==
    \E r \in Runs :
        /\ pc[r] = "done"
        /\ result[r] \in {"NondeterministicMerge", "SummaryFailed"}
        /\ Logged(r) /\ Log(r).staged # << >>
        /\ staging[r] = NULL
        /\ sequel[Other(r)]
        /\ pc[Other(r)] = "upload"
        /\ staging[Other(r)] = Some(<< >>)

\* The polygons a run joined against, and whether a candidate's point is
\* outside all of them (in no interior and on no boundary).
Polygons == LoadPolygons(file)
Outside(row, features) ==
    \A i \in DOMAIN features :
        PointOf(row) \notin features[i].geometry.interior \cup features[i].geometry.boundary
Inside(row, features) == {i \in DOMAIN features : Within(PointOf(row), features[i].geometry)}

\* C12 (no false positives): for every candidate of a run whose point is
\* outside every polygon, the join gives no match result for its id, no
\* staged row carries its id, and with no other writer its target row keeps
\* an unset BOROUGH and a flag that is not true, at every step of the run and
\* after it.
C12_NoFalsePositives ==
    \A r \in Runs : \A i \in DOMAIN candidate_dataframe[r] :
        LET c == candidate_dataframe[r][i]
        IN  (Polygons.status = "ok" /\ Outside(c, Polygons.features)) =>
               /\ MatchesOf(r, c.COLLISION_ID) = {}
               /\ staging[r] # NULL => Hits(c.COLLISION_ID, Val(staging[r])) = {}
               /\ (external_left = MaxExternal /\ c.COLLISION_ID \in DOMAIN table.rows) =>
                      /\ IsNull(table.rows[c.COLLISION_ID].BOROUGH)
                      /\ ~table.rows[c.COLLISION_ID].FLAG

\* The rows of the resolved inferences of run r for an id.
InferencesOf(r, id) ==
    {j \in DOMAIN matched_updates[r] : matched_updates[r][j].COLLISION_ID = id}

C14_SummaryDelta ==
    \A r \in Runs :
        summary[r] # NULL =>
            LET s == Val(summary[r])
                b == Summary(Val(at_start[r]).rows)
                k == Cardinality(Log(r).updated)
            IN  /\ s.total_rows = b.total_rows
                /\ s.rows_flagged_true = b.rows_flagged_true + k
                /\ s.remaining_null_boroughs = b.remaining_null_boroughs - k

\* C14 (summary consistency): the summary a run prints is the aggregates of
\* the table as it is after the merge, and with no other writer, for a merge
\* that updated k rows, rows_flagged_true is k more and
\* remaining_null_boroughs k less than on the table the run started from,
\* and total_rows is the same.
C14_SummaryConsistent ==
    \A r \in Runs :
        (summary[r] # NULL /\ external_left = MaxExternal) =>
            LET s == Val(summary[r])
                b == Summary(Val(at_start[r]).rows)
                k == Cardinality(Log(r).updated)
            IN  /\ s = Summary(table.rows)
                /\ s.total_rows = b.total_rows
                /\ s.rows_flagged_true = b.rows_flagged_true + k
                /\ s.remaining_null_boroughs = b.remaining_null_boroughs - k

\* Row 101 lies in Manhattan, the merge updated that one row, and the
\* summary was printed.
C14_Witness ==
    \E r \in Runs :
        /\ summary[r] # NULL /\ external_left = MaxExternal
        /\ file = FileDisjoint
        /\ Log(r).updated = {IntKey(101)}
        /\ table.rows[IntKey(101)].BOROUGH = Some(TxtManhattan)
        /\ Val(summary[r]).rows_flagged_true =
              Summary(Val(at_start[r]).rows).rows_flagged_true + 1

\* A run that has passed its candidate selection, on a table that had no
\* candidate when the run started (other writers only take candidates away).
NoCandidateRun(r) ==
    /\ pc[r] \in {"load", "resolve", "create", "upload", "merge", "summary", "finally", "done"}
    /\ file.state # "missing"
    /\ CandidateKeys(Val(at_start[r]).rows) = {}

\* C15 as stated: such a run ends normally and still yields a summary.
C15_ZeroWorkSummary ==
    \A r \in Runs :
        (NoCandidateRun(r) /\ pc[r] = "done") =>
            /\ result[r] = "NoCandidates"
            /\ summary[r] # NULL

\* C15 (empty candidate set): when no row has an unset BOROUGH with both
\* coordinates, the run ends at its candidate selection without an error and
\* without any summary; it creates no staging relation, executes no merge,
\* and (with no other writer) every row is as it was when the run started.
C15_EmptyCandidateSet ==
    \A r \in Runs :
        NoCandidateRun(r) =>
            /\ pc[r] \in {"finally", "done"}
            /\ result[r] = "NoCandidates"
            /\ summary[r] = NULL
            /\ staging[r] = NULL
            /\ ~Logged(r)
            /\ external_left = MaxExternal => table.rows = Val(at_start[r]).rows

\* A run has ended on an empty selection although a row has no BOROUGH (it
\* has no LONGITUDE either).
C15_Witness ==
    \E r \in Runs :
        /\ NoCandidateRun(r) /\ pc[r] = "done" /\ result[r] = "NoCandidates"
        /\ summary[r] = NULL
        /\ \E k \in DOMAIN table.rows :
              IsNull(table.rows[k].BOROUGH) /\ IsNull(table.rows[k].LONGITUDE)

\* C16 (merge frame): a merge leaves the set of target keys as it was and
\* changes no row's coordinates; a row that no staged row joins is left as
\* it was; and a staged row that joins no target row does not stop the
\* merge: the statement can be applied whenever no target row is joined by
\* several staged rows.
C16_MergeFrame ==
    \A r \in Runs :
        /\ Logged(r) =>
              LET m == Log(r)
              IN  /\ DOMAIN m.after = DOMAIN m.before
                  /\ \A k \in DOMAIN m.before :
                        /\ m.after[k].LATITUDE = m.before[k].LATITUDE
                        /\ m.after[k].LONGITUDE = m.before[k].LONGITUDE
                        /\ Hits(k, m.staged) = {} => m.after[k] = m.before[k]
        /\ (pc[r] = "merge" /\ ~NondeterministicMerge(table.rows, Val(staging[r]))) =>
              ENABLED Merge(r)

\* A candidate was deleted between the selection and the merge, its staged
\* row joined no target row, and the merge was applied and updated the
\* other row.
C16_Witness ==
    \E r \in Runs :
        /\ Logged(r) /\ Log(r).ok
        /\ Log(r).updated # {}
        /\ \E i \in DOMAIN Log(r).staged :
              /\ Log(r).staged[i].COLLISION_ID # NULL
              /\ \A k \in DOMAIN Log(r).before : i \notin Hits(k, Log(r).staged)
              /\ \E j \in DOMAIN candidate_dataframe[r] :
                    /\ candidate_dataframe[r][j].COLLISION_ID \notin DOMAIN Log(r).before
                    /\ JoinEq(candidate_dataframe[r][j].COLLISION_ID,
                              Log(r).staged[i].COLLISION_ID)

\* The rearrangements of a sequence.
Rearrangements(df) ==
    {[i \in DOMAIN df |-> df[p[i]]] :
        p \in {q \in [DOMAIN df -> DOMAIN df] : \A i, j \in DOMAIN df : q[i] = q[j] => i = j}}

\* C17 (order independence): the resolved inferences and the reported
\* duplicate count of a run are the ones every rearrangement of its match
\* rows gives -- whatever the order the candidates were matched in, and
\* however the results of separately matched parts are concatenated.
C17_OrderIndependent ==
    \A r \in Runs :
        Resolved(r) =>
            \A other \in Rearrangements(joined_dataframe[r]) :
                LET matched == MatchedUpdates(other)
                IN  /\ Deduplicate(matched) = matched_updates[r]
                    /\ reported_duplicates[r] =
                          IF duplicate_count(matched) # 0
                          THEN Some(duplicate_count(matched)) ELSE NULL

\* Id 5 was matched by "X" and then by "M", id 101 came between or after,
\* and the resolved inference for 5 is "M", with one duplicate reported.
C17_Witness ==
    \E r \in Runs :
        /\ Resolved(r)
        /\ Len(joined_dataframe[r]) = 3
        /\ joined_dataframe[r][1] = [COLLISION_ID |-> IntKey(5), name |-> Some(TxtX)]
        /\ joined_dataframe[r][2] = [COLLISION_ID |-> IntKey(5), name |-> Some(TxtM)]
        /\ joined_dataframe[r][3].COLLISION_ID = IntKey(101)
        /\ ~IsNull(joined_dataframe[r][3].name)
        /\ Len(matched_updates[r]) = 2
        /\ matched_updates[r][1] = [COLLISION_ID |-> IntKey(5), INFERRED_BOROUGH |-> TxtM]
        /\ reported_duplicates[r] = Some(1)

====
